---------------------------- MODULE Spec2Model ----------------------------
(***************************************************************************)
(* The waitlist signup worker (Hono on a Cloudflare Worker, D1 store).     *)
(*                                                                         *)
(* Strings are sequences of one-character strings, so that trim,           *)
(* toLowerCase, split and the lexicographic comparison SQLite applies to   *)
(* ISO timestamps are computed, not assumed.  The JavaScript values        *)
(* undefined and null are the one-element sequences Undefined and Null,    *)
(* which no character string equals.                                       *)
(***************************************************************************)
EXTENDS Integers, Sequences, FiniteSets, TLC

VARIABLES
    db,        \* the rows of waitlist_entries
    handlers,  \* the in-flight POST /api/waitlist handlers, by slot
    clock,     \* the wall clock as last read (new Date()), in milliseconds
    log,       \* the responses sent so far, in order, each with its request
    env        \* the Worker's bindings: WAITLIST_RATE_LIMIT_PER_DAY, table shape

vars == <<db, handlers, clock, log, env>>

-----------------------------------------------------------------------------
(* Bounds of the model. *)

MaxRequests == 3
MaxInflight == 2

-----------------------------------------------------------------------------
(* JavaScript values and strings. *)

Undefined == <<"undefined">>
Null == <<"null">>

\* a JSON number (the marker, then its decimal digits) and a JSON boolean, as
\* values that no string equals
JsonNumber == <<"number", "5">>
JsonBoolean == <<"boolean">>

\* typeof v === 'number'
IsNumber(v) == Len(v) >= 1 /\ v[1] = "number"

\* String(v) of a number
NumberToString(v) == Tail(v)

\* typeof v === 'string'
IsString(v) == v \notin {Undefined, Null, JsonBoolean} /\ ~IsNumber(v)

WhiteSpace == {" "}

SetMin(S) == CHOOSE x \in S : \A y \in S : x <= y
SetMax(S) == CHOOSE x \in S : \A y \in S : x >= y

\* String.prototype.trim
Trim(s) ==
    IF \A i \in 1..Len(s) : s[i] \in WhiteSpace THEN <<>>
    ELSE LET first == CHOOSE i \in 1..Len(s) :
                         s[i] \notin WhiteSpace /\ \A j \in 1..(i - 1) : s[j] \in WhiteSpace
             last == CHOOSE i \in 1..Len(s) :
                         s[i] \notin WhiteSpace /\ \A j \in (i + 1)..Len(s) : s[j] \in WhiteSpace
         IN  SubSeq(s, first, last)

UpperLetters == <<"A", "B", "C", "D", "E", "F", "G", "H", "I", "J", "K", "L", "M",
                  "N", "O", "P", "Q", "R", "S", "T", "U", "V", "W", "X", "Y", "Z">>
LowerLetters == <<"a", "b", "c", "d", "e", "f", "g", "h", "i", "j", "k", "l", "m",
                  "n", "o", "p", "q", "r", "s", "t", "u", "v", "w", "x", "y", "z">>
Digits == {"0", "1", "2", "3", "4", "5", "6", "7", "8", "9"}

Range(f) == {f[i] : i \in DOMAIN f}

UpperSet == Range(UpperLetters)

LowerChar(ch) ==
    IF ch \in UpperSet
    THEN LowerLetters[CHOOSE i \in 1..Len(UpperLetters) : UpperLetters[i] = ch]
    ELSE ch

\* String.prototype.toLowerCase
ToLowerCase(s) == [i \in 1..Len(s) |-> LowerChar(s[i])]

\* a ?? b
Coalesce(a, b) == IF a = Undefined \/ a = Null THEN b ELSE a

\* toOptionalString
toOptionalString(value) ==
    IF ~IsString(value) THEN Undefined
    ELSE IF Len(Trim(value)) > 0 THEN Trim(value) ELSE Undefined

\* Repeat(ch, n): the string of n copies of ch
Repeat(ch, n) == [i \in 1..n |-> ch]


-----------------------------------------------------------------------------
(* Validation: the zod schema of the payload. *)

MaxEmailLen == 320
MaxQualifierLen == 80
MaxWebsiteLen == 200

Letters == UpperSet \cup Range(LowerLetters)
AlphaNum == Letters \cup Digits
LocalChars == AlphaNum \cup {"_", "'", "+", "-", "."}
LocalEndChars == AlphaNum \cup {"_", "+", "-"}

\* z.email(): zod's address pattern
\*   ^(?!\.)(?!.*\.\.)([A-Za-z0-9_'+\-\.]*)[A-Za-z0-9_+-]@([A-Za-z0-9][A-Za-z0-9\-]*\.)+[A-Za-z]{2,}$
IsEmail(s) ==
    LET ats == {i \in 1..Len(s) : s[i] = "@"}
    IN  /\ Cardinality(ats) = 1
        /\ LET p == CHOOSE i \in ats : TRUE
               local == SubSeq(s, 1, p - 1)
               domain == SubSeq(s, p + 1, Len(s))
               dots == {i \in 1..Len(domain) : domain[i] = "."}
           IN  /\ Len(local) >= 1
               /\ \A i \in 1..Len(local) : local[i] \in LocalChars
               /\ local[1] # "."
               /\ local[Len(local)] \in LocalEndChars
               /\ \A i \in 1..(Len(s) - 1) : ~(s[i] = "." /\ s[i + 1] = ".")
               /\ dots # {}
               /\ LET last == SetMax(dots)
                  IN  /\ Len(domain) - last >= 2
                      /\ \A i \in (last + 1)..Len(domain) : domain[i] \in Letters
                      /\ domain[1] \in AlphaNum
                      /\ \A i \in 1..(last - 1) :
                            /\ domain[i] \in AlphaNum \cup {"-", "."}
                            /\ (domain[i] = ".") => domain[i + 1] \in AlphaNum

\* z.string().trim().max(n).optional()
OptionalStringOk(v, n) == v = Undefined \/ (IsString(v) /\ Len(Trim(v)) <= n)

\* normalizePayload: the alias families folded onto the canonical fields
normalizePayload(raw) ==
    [email |-> toOptionalString(raw.email),
     qualifier |-> toOptionalString(Coalesce(Coalesce(raw.qualifier, raw.segment), raw.role)),
     website |-> toOptionalString(Coalesce(raw.website, raw.company))]

\* the address bound exclusive: .max(319)
SafeParseSuccess_MaxExclusive(p) ==
    /\ IsString(p.email)
    /\ IsEmail(Trim(p.email))
    /\ Len(Trim(p.email)) < MaxEmailLen
    /\ OptionalStringOk(p.qualifier, MaxQualifierLen)
    /\ OptionalStringOk(p.website, MaxWebsiteLen)

\* waitlistPayloadSchema.safeParse(...).success
SafeParseSuccess(p) ==
    /\ IsString(p.email)
    /\ IsEmail(Trim(p.email))
    /\ Len(Trim(p.email)) <= MaxEmailLen
    /\ OptionalStringOk(p.qualifier, MaxQualifierLen)
    /\ OptionalStringOk(p.website, MaxWebsiteLen)

\* waitlistPayloadSchema.safeParse(...).data
SafeParseData(p) ==
    [email |-> Trim(p.email),
     qualifier |-> IF p.qualifier = Undefined THEN Undefined ELSE Trim(p.qualifier),
     website |-> IF p.website = Undefined THEN Undefined ELSE Trim(p.website)]

\* the honeypot test passing a one-character value
HoneypotFilled_LongOnly(payload) == payload.website # Undefined /\ Len(payload.website) > 1

\* payload.website && payload.website.length > 0
HoneypotFilled(payload) == payload.website # Undefined /\ Len(payload.website) > 0

-----------------------------------------------------------------------------
(* Additional fields.  An object is the sequence of its entries <<key,       *)
(* value>>, in the order Object.entries gives them, no key twice; the        *)
(* optional field payload.additionalFields is [present, entries].            *)

MaxAdditionalFields == 24
MaxFieldKeyLen == 64
MaxFieldValueLen == 1200

\* s.slice(0, n)
Slice(s, n) == SubSeq(s, 1, IF Len(s) < n THEN Len(s) ELSE n)

\* output[key] = value
Assign(output, key, value) ==
    IF \E j \in 1..Len(output) : output[j][1] = key
    THEN [j \in 1..Len(output) |-> IF output[j][1] = key THEN <<key, value>> ELSE output[j]]
    ELSE Append(output, <<key, value>>)

\* delete output[key]
Delete(output, key) == SelectSeq(output, LAMBDA entry : entry[1] # key)

\* the loop of sanitizeLooseRecord from entry i on
RECURSIVE SanitizeFrom(_, _, _, _)
SanitizeFrom(entries, i, output, count) ==
    IF i > Len(entries) \/ count >= MaxAdditionalFields THEN output
    ELSE LET rawKey == entries[i][1]
             rawValue == entries[i][2]
             key == Slice(Trim(rawKey), MaxFieldKeyLen)
             valueString == toOptionalString(IF IsString(rawValue) THEN rawValue
                                             ELSE IF IsNumber(rawValue)
                                                  THEN NumberToString(rawValue)
                                                  ELSE Undefined)
         IN  IF key = <<>> \/ valueString = Undefined
             THEN SanitizeFrom(entries, i + 1, output, count)
             ELSE SanitizeFrom(entries, i + 1,
                               Assign(output, key, Slice(valueString, MaxFieldValueLen)),
                               count + 1)

\* payload.additionalFields when the field is absent, and when it is an object
NoAdditionalFields == [present |-> FALSE, entries |-> <<>>]
Fields(entries) == [present |-> TRUE, entries |-> entries]

\* sanitizeLooseRecord
sanitizeLooseRecord(value) ==
    IF ~value.present THEN <<>> ELSE SanitizeFrom(value.entries, 1, <<>>, 0)

UseCaseKey == <<"u", "s", "e", "C", "a", "s", "e">>

\* const additionalFields = sanitizeLooseRecord(payload.additionalFields);
\* delete additionalFields.useCase
additionalFields(payloadAdditionalFields) ==
    Delete(sanitizeLooseRecord(payloadAdditionalFields), UseCaseKey)

-----------------------------------------------------------------------------
(* Configuration. *)

DefaultRateLimitPerDay == 10

DigitSeq == <<"0", "1", "2", "3", "4", "5", "6", "7", "8", "9">>
DigitVal(ch) == (CHOOSE i \in 1..10 : DigitSeq[i] = ch) - 1

RECURSIVE DigitsValue(_)
DigitsValue(s) ==
    IF Len(s) = 0 THEN 0
    ELSE 10 * DigitsValue(SubSeq(s, 1, Len(s) - 1)) + DigitVal(s[Len(s)])

\* Number.parseInt(value, 10): leading white space, a sign, then the digits up
\* to the first other character; NaN when there is no digit
ParseInt(s) ==
    LET nonWs == {i \in 1..Len(s) : s[i] \notin WhiteSpace}
        start == IF nonWs = {} THEN Len(s) + 1 ELSE SetMin(nonWs)
        signed == start <= Len(s) /\ s[start] \in {"-", "+"}
        first == IF signed THEN start + 1 ELSE start
        stops == {i \in first..Len(s) : s[i] \notin Digits}
        last == IF stops = {} THEN Len(s) ELSE SetMin(stops) - 1
        magnitude == DigitsValue(SubSeq(s, first, last))
    IN  IF last < first THEN [nan |-> TRUE, value |-> 0]
        ELSE [nan |-> FALSE,
              value |-> IF signed /\ s[start] = "-" THEN 0 - magnitude ELSE magnitude]

\* parsePositiveInt
parsePositiveInt(value, fallbackValue) ==
    IF value = Undefined \/ value = <<>> THEN fallbackValue
    ELSE LET parsedValue == ParseInt(value)
         IN  IF parsedValue.nan \/ parsedValue.value < 1 THEN fallbackValue
             ELSE parsedValue.value

\* const rateLimitPerDay = parsePositiveInt(c.env.WAITLIST_RATE_LIMIT_PER_DAY, 10)
rateLimitPerDay == parsePositiveInt(env.WAITLIST_RATE_LIMIT_PER_DAY, DefaultRateLimitPerDay)

-----------------------------------------------------------------------------
(* The connecting IP. *)

\* the forwarded-for hop preferred to the connecting-IP header
getConnectingIp_ForwardedFirst(headers) ==
    LET connectingIp == headers.cfConnectingIp
        forwardedFor == headers.xForwardedFor
    IN  IF forwardedFor # Null /\ Len(forwardedFor) > 0
        THEN LET commas == {i \in 1..Len(forwardedFor) : forwardedFor[i] = ","}
                 firstEnd == IF commas = {} THEN Len(forwardedFor)
                             ELSE SetMin(commas) - 1
             IN  Trim(SubSeq(forwardedFor, 1, firstEnd))
        ELSE IF connectingIp # Null /\ Len(connectingIp) > 0 THEN connectingIp
        ELSE <<"u", "n", "k", "n", "o", "w", "n">>

\* getConnectingIp; headers.get gives null for a header that is not sent
getConnectingIp(headers) ==
    LET connectingIp == headers.cfConnectingIp
        forwardedFor == headers.xForwardedFor
    IN  IF connectingIp # Null /\ Len(connectingIp) > 0 THEN connectingIp
        ELSE IF forwardedFor # Null /\ Len(forwardedFor) > 0
             THEN LET commas == {i \in 1..Len(forwardedFor) : forwardedFor[i] = ","}
                      firstEnd == IF commas = {} THEN Len(forwardedFor)
                                  ELSE SetMin(commas) - 1
                  IN  Trim(SubSeq(forwardedFor, 1, firstEnd))
             ELSE <<"u", "n", "k", "n", "o", "w", "n">>

\* sha256Hex: the digest, as a value that is a function of the input alone
sha256Hex(input) == <<"sha256">> \o input

-----------------------------------------------------------------------------
(* Dates.  An instant is a number of milliseconds; its ISO string            *)
(* YYYY-MM-DDTHH:MM:SS.mmmZ is the tuple <<day, HH, MM, SS, mmm>> of its     *)
(* fixed-width fields (the date as a day number), which SQLite compares      *)
(* field by field, left to right.                                            *)

MsPerSecond == 1000
MsPerMinute == 60000
MsPerHour == 3600000
MsPerDay == 86400000

\* Date.UTC(year, month, date, hours, minutes, seconds, ms)
DateUTC(day, h, m, s, ms) ==
    day * MsPerDay + h * MsPerHour + m * MsPerMinute + s * MsPerSecond + ms

\* (getUTCFullYear, getUTCMonth, getUTCDate)
UtcDate(date) == date \div MsPerDay

\* Date.prototype.toISOString
ToISOString(date) ==
    <<date \div MsPerDay,
      (date % MsPerDay) \div MsPerHour,
      (date % MsPerHour) \div MsPerMinute,
      (date % MsPerMinute) \div MsPerSecond,
      date % MsPerSecond>>

RECURSIVE TextLeqFrom(_, _, _)
TextLeqFrom(a, b, i) ==
    IF i > Len(a) THEN TRUE
    ELSE IF i > Len(b) THEN FALSE
    ELSE IF a[i] < b[i] THEN TRUE
    ELSE IF a[i] > b[i] THEN FALSE
    ELSE TextLeqFrom(a, b, i + 1)

\* SQLite's a <= b on TEXT
TextLeq(a, b) == TextLeqFrom(a, b, 1)

\* the window opened at noon
startOfUtcDayIso_Noon(date) == ToISOString(DateUTC(UtcDate(date), 12, 0, 0, 0))

startOfUtcDayIso(date) == ToISOString(DateUTC(UtcDate(date), 0, 0, 0, 0))

\* the window closed at 23:59:59.000
endOfUtcDayIso_WholeSecond(date) == ToISOString(DateUTC(UtcDate(date), 23, 59, 59, 0))

endOfUtcDayIso(date) == ToISOString(DateUTC(UtcDate(date), 23, 59, 59, 999))

\* the seconds rounded down: Math.max(1, Math.floor((nextDay - now) / 1000))
secondsUntilNextUtcDay_Floor(now) ==
    LET nextDay == DateUTC(UtcDate(now) + 1, 0, 0, 0, 0)
        diff == nextDay - now
        floor == diff \div MsPerSecond
    IN  IF floor > 1 THEN floor ELSE 1

\* Math.max(1, Math.ceil((nextDay - now) / 1000))
secondsUntilNextUtcDay(now) ==
    LET nextDay == DateUTC(UtcDate(now) + 1, 0, 0, 0, 0)
        diff == nextDay - now
        ceil == (diff + MsPerSecond - 1) \div MsPerSecond
    IN  IF ceil > 1 THEN ceil ELSE 1

-----------------------------------------------------------------------------
(* The store: table waitlist_entries, UNIQUE(email).  A row carries the      *)
(* identity column, one payload column (qualifier), the connecting-IP        *)
(* columns and the two timestamps; the other payload and edge columns are    *)
(* written exactly as qualifier is.                                          *)

\* the address bound as submitted, not case-folded
upsertValues_NoLowerCase(payload, ipAddress, now) ==
    [email |-> payload.email,
     qualifier |-> Coalesce(payload.qualifier, Null),
     ip_address |-> ipAddress,
     created_at |-> ToISOString(now),
     updated_at |-> ToISOString(now)]

\* const upsertValues = [...]
upsertValues(payload, ipAddress, now) ==
    [email |-> ToLowerCase(payload.email),
     qualifier |-> Coalesce(payload.qualifier, Null),
     ip_address |-> ipAddress,
     created_at |-> ToISOString(now),
     updated_at |-> ToISOString(now)]

\* the update list without qualifier
FirstConflictUpdate_KeepsQualifier(row, excluded) ==
    [row EXCEPT !.ip_address = excluded.ip_address,
                !.updated_at = excluded.updated_at]

\* the update list without ip_address
FirstConflictUpdate_KeepsIp(row, excluded) ==
    [row EXCEPT !.qualifier = excluded.qualifier,
                !.updated_at = excluded.updated_at]

\* ON CONFLICT(email) DO UPDATE SET ... of the first statement
FirstConflictUpdate(row, excluded) ==
    [row EXCEPT !.qualifier = excluded.qualifier,
                !.ip_address = excluded.ip_address,
                !.updated_at = excluded.updated_at]

\* the statement replacing the table's rows by the one written
FirstUpsert_DropsOthers(rows, values) ==
    {[email |-> values.email,
      qualifier |-> values.qualifier,
      ip_address |-> values.ip_address,
      ip_hash |-> Null,
      created_at |-> values.created_at,
      updated_at |-> values.updated_at]}

\* INSERT INTO waitlist_entries (...) VALUES (...) ON CONFLICT(email) DO UPDATE
FirstUpsert(rows, values) ==
    IF \E r \in rows : r.email = values.email
    THEN {IF r.email = values.email THEN FirstConflictUpdate(r, values) ELSE r : r \in rows}
    ELSE rows \cup {[email |-> values.email,
                     qualifier |-> values.qualifier,
                     ip_address |-> values.ip_address,
                     ip_hash |-> Null,
                     created_at |-> values.created_at,
                     updated_at |-> values.updated_at]}

\* the update list with created_at = excluded.created_at added
FallbackConflictUpdate_ResetsCreatedAt(row, excluded) ==
    [row EXCEPT !.qualifier = excluded.qualifier,
                !.ip_hash = excluded.ip_hash,
                !.ip_address = excluded.ip_address,
                !.created_at = excluded.created_at,
                !.updated_at = excluded.updated_at]

\* the update list without ip_address and ip_hash
FallbackConflictUpdate_KeepsIp(row, excluded) ==
    [row EXCEPT !.qualifier = excluded.qualifier,
                !.updated_at = excluded.updated_at]

\* ON CONFLICT(email) DO UPDATE SET ... of the statement with ip_hash
FallbackConflictUpdate(row, excluded) ==
    [row EXCEPT !.qualifier = excluded.qualifier,
                !.ip_hash = excluded.ip_hash,
                !.ip_address = excluded.ip_address,
                !.updated_at = excluded.updated_at]

\* the statement of the catch branch with ip_hash bound to the digest of the
\* address instead of the connecting IP
FallbackUpsert_HashOfEmail(rows, values) ==
    LET withIpHash == [email |-> values.email,
                       qualifier |-> values.qualifier,
                       ip_hash |-> sha256Hex(values.email),
                       ip_address |-> values.ip_address,
                       created_at |-> values.created_at,
                       updated_at |-> values.updated_at]
    IN  IF \E r \in rows : r.email = withIpHash.email
        THEN {IF r.email = withIpHash.email THEN FallbackConflictUpdate(r, withIpHash) ELSE r
              : r \in rows}
        ELSE rows \cup {withIpHash}

\* the statement of the catch branch, ip_hash bound to sha256Hex(ipAddress)
FallbackUpsert(rows, values) ==
    LET withIpHash == [email |-> values.email,
                       qualifier |-> values.qualifier,
                       ip_hash |-> sha256Hex(values.ip_address),
                       ip_address |-> values.ip_address,
                       created_at |-> values.created_at,
                       updated_at |-> values.updated_at]
    IN  IF \E r \in rows : r.email = withIpHash.email
        THEN {IF r.email = withIpHash.email THEN FallbackConflictUpdate(r, withIpHash) ELSE r
              : r \in rows}
        ELSE rows \cup {withIpHash}

\* the window open at its start: created_at > ?2
CountQuery_ExclusiveStart(rows, ipAddress, dayStart, dayEnd) ==
    Cardinality({r \in rows : /\ r.ip_address = ipAddress
                              /\ r.created_at # dayStart
                              /\ TextLeq(dayStart, r.created_at)
                              /\ TextLeq(r.created_at, dayEnd)})

\* SELECT COUNT(*) FROM waitlist_entries
\*  WHERE ip_address = ?1 AND created_at >= ?2 AND created_at <= ?3
CountQuery(rows, ipAddress, dayStart, dayEnd) ==
    Cardinality({r \in rows : /\ r.ip_address = ipAddress
                              /\ TextLeq(dayStart, r.created_at)
                              /\ TextLeq(r.created_at, dayEnd)})

-----------------------------------------------------------------------------
(* The request body.  A header value or an error message is a sequence of    *)
(* tokens (a content type: its essence, then its parameters) and             *)
(* String.prototype.includes looks for one token.  A body is [syntax, value]:*)
(* the syntax its bytes are well formed in ("json", "urlencoded",            *)
(* "multipart", or "none" for bytes well formed in none) and what they       *)
(* denote.  A JSON value is [type, fields].                                  *)

Includes(tokens, needle) == \E i \in 1..Len(tokens) : tokens[i] = needle

\* a record with none of the fields the handler reads
NoFields ==
    [email |-> Undefined, qualifier |-> Undefined, segment |-> Undefined,
     role |-> Undefined, website |-> Undefined, company |-> Undefined]

\* isRecord: typeof value === 'object' && value !== null
isRecord(value) == value.type \in {"object", "array"}

\* Body.json(): resolves with the value the bytes denote, rejects with a
\* SyntaxError when they are not JSON
RequestJson(request) ==
    IF request.body.syntax = "json"
    THEN [rejected |-> FALSE, value |-> request.body.value]
    ELSE [rejected |-> TRUE, value |-> [type |-> "null", fields |-> NoFields]]

\* Body.formData(): by the MIME type's essence.  multipart/form-data is parsed
\* with the boundary parameter and rejects with a TypeError when that fails;
\* application/x-www-form-urlencoded is parsed leniently and always resolves
\* (bytes of another syntax give no field the handler reads); any other
\* essence rejects with a TypeError
RequestFormData(request) ==
    LET essence == request.contentType[1]
    IN  IF essence = "multipart/form-data"
        THEN IF request.body.syntax = "multipart" /\ Includes(request.contentType, "boundary=X")
             THEN [rejected |-> FALSE, value |-> request.body.value.fields]
             ELSE [rejected |-> TRUE, value |-> NoFields]
        ELSE IF essence = "application/x-www-form-urlencoded"
        THEN [rejected |-> FALSE,
              value |-> IF request.body.syntax = "urlencoded" THEN request.body.value.fields
                        ELSE NoFields]
        ELSE [rejected |-> TRUE, value |-> NoFields]

\* parseRequestBody: [threw, value]; request.json() is caught, request.formData()
\* is not
parseRequestBody(request) ==
    LET contentType == Coalesce(request.contentType, <<>>)
    IN  IF Includes(contentType, "application/json")
        THEN LET json == RequestJson(request)
                 jsonBody == IF json.rejected THEN [type |-> "null", fields |-> NoFields]
                             ELSE json.value
             IN  [threw |-> FALSE,
                  value |-> IF isRecord(jsonBody) THEN jsonBody.fields ELSE NoFields]
        ELSE IF \/ Includes(contentType, "application/x-www-form-urlencoded")
                \/ Includes(contentType, "multipart/form-data")
        THEN LET formData == RequestFormData(request)
             IN  [threw |-> formData.rejected, value |-> formData.value]
        ELSE [threw |-> FALSE, value |-> NoFields]

-----------------------------------------------------------------------------
(* Errors the store raises. *)

NoError == [isError |-> FALSE, message |-> <<>>]

\* what D1 raises for an INSERT without ip_hash on a table that requires it
IpHashConstraintError ==
    [isError |-> TRUE,
     message |-> <<"D1_ERROR: ", "NOT NULL constraint failed: waitlist_entries.ip_hash",
                   ": SQLITE_CONSTRAINT">>]

\* other failures of a statement: the table missing, the connection lost, and
\* a thrown value that is no Error
StoreFaults ==
    {[isError |-> TRUE, message |-> <<"D1_ERROR: ", "no such table: waitlist_entries">>],
     [isError |-> TRUE, message |-> <<"Network connection lost.">>],
     [isError |-> FALSE, message |-> <<"NOT NULL constraint failed: waitlist_entries.ip_hash">>]}

\* the catch branch taken for every error
isIpHashConstraintError_AnyError(error) == TRUE

\* isIpHashConstraintError
isIpHashConstraintError(error) ==
    /\ error.isError
    /\ Includes(error.message, "NOT NULL constraint failed: waitlist_entries.ip_hash")

-----------------------------------------------------------------------------
(* Responses. *)

InvalidPayloadResponse ==
    [status |-> 400, ok |-> FALSE, error |-> "invalid_payload",
     message |-> "Please submit a valid email address.", retryAfter |-> 0]

HoneypotResponse ==
    [status |-> 200, ok |-> TRUE, error |-> "",
     message |-> "Thanks for your interest.", retryAfter |-> 0]

RateLimitedResponse(now) ==
    [status |-> 429, ok |-> FALSE, error |-> "rate_limited",
     message |-> "Rate limit reached. Please try again tomorrow.",
     retryAfter |-> secondsUntilNextUtcDay(now)]

CreatedResponse ==
    [status |-> 201, ok |-> TRUE, error |-> "",
     message |-> "You are on the waitlist.", retryAfter |-> 0]

\* c.json({ok: true, service: 'waitlist-api'}): status 200
HealthResponse ==
    [status |-> 200, ok |-> TRUE, error |-> "", message |-> "waitlist-api", retryAfter |-> 0]

\* c.body(null, 204), Allow: POST, OPTIONS
OptionsResponse ==
    [status |-> 204, ok |-> TRUE, error |-> "", message |-> "", retryAfter |-> 0]

\* a request under /api/ that no route matches: Hono's notFound
NotFoundResponse ==
    [status |-> 404, ok |-> FALSE, error |-> "not_found", message |-> "404 Not Found",
     retryAfter |-> 0]

\* what env.ASSETS.fetch(request) answers, of the status the asset server gives
AssetResponse(status) ==
    [status |-> status, ok |-> status = 200, error |-> "", message |-> "asset",
     retryAfter |-> 0]

\* an error thrown out of the handler: the app registers no onError, and Hono's
\* own handler answers 500 "Internal Server Error"
InternalServerErrorResponse ==
    [status |-> 500, ok |-> FALSE, error |-> "unhandled",
     message |-> "Internal Server Error", retryAfter |-> 0]

-----------------------------------------------------------------------------
(* Requests the environment sends. *)

Str_a == <<"a", "@", "x", ".", "i", "o">>
Str_A == <<"A", "@", "x", ".", "i", "o">>
Str_b == <<"b", "@", "x", ".", "i", "o">>
Str_c == <<"c", "@", "x", ".", "i", "o">>

RawQualifiers == {Undefined, <<"d", "e", "v">>}

BlankPayload ==
    [email |-> Undefined, qualifier |-> Undefined, segment |-> Undefined,
     role |-> Undefined, website |-> Undefined, company |-> Undefined]

\* genuine submissions: a valid address, no honeypot
Submissions ==
    {[BlankPayload EXCEPT !.email = Str_a, !.qualifier = q] : q \in RawQualifiers}
        \cup {[BlankPayload EXCEPT !.email = e] : e \in {Str_A, <<" ">> \o Str_b, Str_c}}

\* submissions with the honeypot sent: filled (website or its alias company),
\* blank, over-long, and filled next to a missing address
BotPayloads ==
    {[BlankPayload EXCEPT !.email = Str_a, !.website = <<"w">>],
     [BlankPayload EXCEPT !.email = Str_a, !.company = <<"c">>],
     [BlankPayload EXCEPT !.email = Str_a, !.website = <<" ">>],
     [BlankPayload EXCEPT !.email = Str_a, !.website = Repeat("w", MaxWebsiteLen + 1)],
     [BlankPayload EXCEPT !.website = <<"w">>]}

\* no address, a blank one, one that is no address
BadPayloads ==
    {BlankPayload,
     [BlankPayload EXCEPT !.email = <<" ", " ">>],
     [BlankPayload EXCEPT !.email = <<"a", "x", ".", "i", "o">>]}

RawPayloads == Submissions \cup BotPayloads \cup BadPayloads

HeaderSets ==
    {[cfConnectingIp |-> <<"1">>, xForwardedFor |-> Null],
     [cfConnectingIp |-> Null, xForwardedFor |-> <<"2", ",", " ", "9">>]}

\* the instants a request is received at: the first and the last millisecond
\* of a day, and the first of the next
Instants == {DateUTC(0, 0, 0, 0, 0), DateUTC(0, 23, 59, 59, 999), DateUTC(1, 0, 0, 0, 0)}

EnvRateLimits == {<<"1">>, <<"2">>}

\* instants around the end of a day: its first millisecond, 1001 ms, 1000 ms
\* and 1 ms before the next midnight, and a second into the next day
DayEndInstants ==
    {DateUTC(0, 0, 0, 0, 0), DateUTC(0, 23, 59, 58, 999), DateUTC(0, 23, 59, 59, 0),
     DateUTC(0, 23, 59, 59, 999), DateUTC(1, 0, 0, 1, 0)}

\* two genuine submissions of different addresses
TwoSubmissions == {[BlankPayload EXCEPT !.email = e] : e \in {Str_a, Str_c}}

\* three genuine submissions of different addresses
ThreeSubmissions == {[BlankPayload EXCEPT !.email = e] : e \in {Str_a, Str_b, Str_c}}

\* one connecting IP
OneHeaderSet == {[cfConnectingIp |-> <<"1">>, xForwardedFor |-> Null]}

\* settings of WAITLIST_RATE_LIMIT_PER_DAY: unset, empty, no number, zero,
\* negative, positive integers, and a number followed by a letter
ConfiguredRateLimits ==
    {Undefined, <<>>, <<"a", "b", "c">>, <<"0">>, <<"-", "1">>,
     <<"1">>, <<"2">>, <<"1", "2">>, <<"2", "x">>}

\* addresses of valid form of 320 and 321 characters
Email320 == Repeat("a", MaxEmailLen - 5) \o <<"@", "x", ".", "i", "o">>
Email321 == Repeat("a", MaxEmailLen - 4) \o <<"@", "x", ".", "i", "o">>

\* payloads whose address is to be accepted: a short one, one of 320
\* characters, and that one between white space
GoodEmailPayloads ==
    {[BlankPayload EXCEPT !.email = e] : e \in {Str_a, Email320, <<" ">> \o Email320 \o <<" ">>}}

\* payloads whose address is to be rejected: absent, null, a number, a
\* boolean, empty, white space, of 321 characters, and of no valid form
BadEmailPayloads ==
    {[BlankPayload EXCEPT !.email = e] :
        e \in {Undefined, Null, JsonNumber, JsonBoolean, <<>>, <<" ", " ">>, Email321,
               <<"a", "x", ".", "i", "o">>}}

TeamSizeKey == <<"t", "e", "a", "m", "S", "i", "z", "e">>
TeamSizeFields == << <<TeamSizeKey, <<"3", "-", "1", "0">>>> >>

\* additionalFields as submitted: none; {teamSize: "3-10"}; the same beside
\* useCase; " useCase " beside another key; 25 entries; keys of 65 characters
\* (one with white space at the 64th); a value of 1201 characters; values
\* that are a number, a boolean, null, empty, blank, padded; keys that are
\* empty or blank; two keys equal once trimmed
AdditionalFieldsInputs ==
    {NoAdditionalFields} \cup
    {Fields(entries) : entries \in
        {TeamSizeFields,
         TeamSizeFields \o << <<UseCaseKey, <<"x">>>> >>,
         << <<<<" ">> \o UseCaseKey \o <<" ">>, <<"x">>>>, <<<<"p">>, <<"y">>>> >>,
         [i \in 1..(MaxAdditionalFields + 1) |-> <<Repeat("k", i), <<"v">>>>],
         << <<Repeat("k", MaxFieldKeyLen + 1), <<"v">>>> >>,
         << <<Repeat("k", MaxFieldKeyLen - 1) \o <<" ", "x">>, <<"v">>>> >>,
         << <<<<"p">>, Repeat("v", MaxFieldValueLen + 1)>> >>,
         << <<<<"n">>, JsonNumber>>, <<<<"b">>, JsonBoolean>>, <<<<"z">>, Null>>,
            <<<<"e">>, <<>>>>, <<<<"w">>, <<" ">>>>, <<<<"p">>, <<" ", "v", " ">>>> >>,
         << <<<<>>, <<"v">>>>, <<<<" ", " ">>, <<"v">>>> >>,
         << <<<<"a">>, <<"1">>>>, <<<<" ", "a">>, <<"2">>>> >>}}

\* headers as sent: neither IP header; cf-connecting-ip alone; x-forwarded-for
\* alone ("2 , 9"); cf-connecting-ip empty next to x-forwarded-for; both
NoIpHeaders == [cfConnectingIp |-> Null, xForwardedFor |-> Null]

IpHeaderSets ==
    {NoIpHeaders,
     [cfConnectingIp |-> <<"1">>, xForwardedFor |-> Null],
     [cfConnectingIp |-> Null, xForwardedFor |-> <<"2", " ", ",", " ", "9">>],
     [cfConnectingIp |-> <<>>, xForwardedFor |-> <<"2">>],
     [cfConnectingIp |-> <<"1">>, xForwardedFor |-> <<"2">>]}

\* pathname.startsWith(prefix), a pathname being a sequence of tokens
StartsWith(pathname, prefix) == Len(pathname) >= 1 /\ pathname[1] = prefix

\* requests that are none of the three routes: two under /api/, a page, an
\* asset, and /api itself
OtherRequests ==
    {[method |-> "GET", pathname |-> <<"/api/", "waitlist">>],
     [method |-> "POST", pathname |-> <<"/api/", "health">>],
     [method |-> "GET", pathname |-> <<"/">>],
     [method |-> "POST", pathname |-> <<"/", "waitlist">>],
     [method |-> "GET", pathname |-> <<"/api">>]}

JsonObject(fields) == [type |-> "object", fields |-> fields]

\* POST requests as sent: JSON objects (two addresses), a JSON number, a JSON
\* array, bytes that are not JSON sent as JSON, a form post, a multipart post,
\* multipart posts that do not parse (no boundary parameter; a body that is
\* not multipart), a body sent with another content type, and none
Requests ==
    {[contentType |-> <<"application/json">>,
      body |-> [syntax |-> "json", value |-> JsonObject([BlankPayload EXCEPT !.email = e])]]
        : e \in {Str_a, Str_c}}
    \cup
    {[contentType |-> <<"application/json">>,
      body |-> [syntax |-> "json", value |-> [type |-> "number", fields |-> NoFields]]],
     [contentType |-> <<"application/json">>,
      body |-> [syntax |-> "json", value |-> [type |-> "array", fields |-> NoFields]]],
     [contentType |-> <<"application/json">>,
      body |-> [syntax |-> "none", value |-> [type |-> "null", fields |-> NoFields]]],
     [contentType |-> <<"application/x-www-form-urlencoded">>,
      body |-> [syntax |-> "urlencoded",
                value |-> JsonObject([BlankPayload EXCEPT !.email = Str_a])]],
     [contentType |-> <<"multipart/form-data", "boundary=X">>,
      body |-> [syntax |-> "multipart",
                value |-> JsonObject([BlankPayload EXCEPT !.email = Str_c])]],
     [contentType |-> <<"multipart/form-data">>,
      body |-> [syntax |-> "multipart",
                value |-> JsonObject([BlankPayload EXCEPT !.email = Str_a])]],
     [contentType |-> <<"multipart/form-data", "boundary=X">>,
      body |-> [syntax |-> "none", value |-> [type |-> "null", fields |-> NoFields]]],
     [contentType |-> <<"text/plain">>,
      body |-> [syntax |-> "json", value |-> JsonObject([BlankPayload EXCEPT !.email = Str_a])]],
     [contentType |-> Null,
      body |-> [syntax |-> "none", value |-> [type |-> "null", fields |-> NoFields]]]}

\* POST requests to the route: two addresses, one with the honeypot filled, and
\* a JSON number
RouteRequests ==
    {[contentType |-> <<"application/json">>,
      body |-> [syntax |-> "json", value |-> JsonObject(fields)]]
        : fields \in {[BlankPayload EXCEPT !.email = Str_a],
                      [BlankPayload EXCEPT !.email = Str_c],
                      [BlankPayload EXCEPT !.email = Str_a, !.website = <<"w">>]}}
    \cup
    {[contentType |-> <<"application/json">>,
      body |-> [syntax |-> "json", value |-> [type |-> "number", fields |-> NoFields]]]}

\* the requests whose body does not parse under the content type they carry
UnparsableRequests ==
    {r \in Requests :
        \/ Includes(Coalesce(r.contentType, <<>>), "application/json") /\ r.body.syntax # "json"
        \/ /\ Includes(Coalesce(r.contentType, <<>>), "multipart/form-data")
           /\ ~(r.body.syntax = "multipart" /\ Includes(r.contentType, "boundary=X"))}

-----------------------------------------------------------------------------
(* The handler of POST /api/waitlist, one step per run between awaits. *)

Slots == 1..MaxInflight

\* parseRequestBody, normalizePayload and getConnectingIp, tabulated over the
\* requests sent
ParsedOf == [request \in Requests \cup RouteRequests |-> parseRequestBody(request)]
KnownPayloads ==
    RawPayloads \cup ThreeSubmissions \cup GoodEmailPayloads \cup BadEmailPayloads
        \cup {ParsedOf[request].value : request \in Requests \cup RouteRequests}
NormalizedOf == [raw \in KnownPayloads |-> normalizePayload(raw)]
ConnectingIpOf == [headers \in HeaderSets \cup IpHeaderSets |-> getConnectingIp(headers)]

Idle == [pc |-> "idle"]

InFlight == {h \in Slots : handlers[h].pc # "idle"}

\* a response as logged: the request as the handler saw it (the validated
\* payload's address; honeypot: the normalized website field is present; nothing but
\* the honeypot flag for a payload that failed validation), the count the
\* rate-limit query returned and the statements the handler issued
LogEntry(email, qualifier, honeypot, ip, now, count, response, reads, writes) ==
    [email |-> email, qualifier |-> qualifier, honeypot |-> honeypot,
     ip |-> ip, now |-> now, count |-> count, response |-> response,
     reads |-> reads, writes |-> writes]

HandlerEntry(q, response, reads, writes) ==
    LogEntry(q.payload.email, q.payload.qualifier, q.payload.website # Undefined,
             q.ipAddress, q.now, q.submissionCount, response, reads, writes)

Init ==
    /\ db = {}
    /\ handlers = [h \in Slots |-> Idle]
    /\ clock = 0
    /\ log = <<>>
    /\ env \in [WAITLIST_RATE_LIMIT_PER_DAY : EnvRateLimits, ipHashRequired : BOOLEAN]

\* app.post('/api/waitlist'): parse, normalize, validate, honeypot, then the
\* receipt instant (date: what new Date() gives, never before an earlier
\* reading) and the connecting IP, up to the await of the count query
PostWaitlist(h, rawPayload, headers, date) ==
    /\ handlers[h].pc = "idle"
    /\ h = SetMin(Slots \ InFlight)
    /\ Len(log) + Cardinality(InFlight) < MaxRequests
    /\ date >= clock
    /\ LET normalizedPayload == NormalizedOf[rawPayload]
           honeypot == normalizedPayload.website # Undefined
           ip == ConnectingIpOf[headers]
       IN  IF ~SafeParseSuccess(normalizedPayload)
           THEN /\ log' = Append(log, LogEntry(Undefined, Undefined, honeypot, Null, 0, 0,
                                               InvalidPayloadResponse, 0, 0))
                /\ UNCHANGED handlers
           ELSE LET payload == SafeParseData(normalizedPayload)
                IN  IF HoneypotFilled(payload)
                    THEN /\ log' = Append(log, LogEntry(payload.email,
                                                        payload.qualifier, honeypot, ip, date,
                                                        0, HoneypotResponse, 0, 0))
                         /\ UNCHANGED handlers
                    ELSE /\ handlers' = [handlers EXCEPT ![h] =
                                            [pc |-> "count", payload |-> payload,
                                             ipAddress |-> ip, now |-> date,
                                             submissionCount |-> 0]]
                         /\ UNCHANGED log
    /\ clock' = date
    /\ UNCHANGED <<db, env>>

\* the limiter switched off
AtOrOverLimit_Never(submissionCount) == FALSE

\* the comparison off by one: a count equal to the limit passes
AtOrOverLimit_Strict(submissionCount) == submissionCount > rateLimitPerDay

\* submissionCount >= rateLimitPerDay
AtOrOverLimit(submissionCount) == submissionCount >= rateLimitPerDay

\* the count query returns: 429 at or over the limit, else on to the upsert
RateLimitCheck(h) ==
    /\ handlers[h].pc = "count"
    /\ LET q == handlers[h]
           submissionCount == CountQuery(db, q.ipAddress, startOfUtcDayIso(q.now),
                                         endOfUtcDayIso(q.now))
       IN  IF AtOrOverLimit(submissionCount)
           THEN /\ log' = Append(log, HandlerEntry([q EXCEPT !.submissionCount = submissionCount],
                                                   RateLimitedResponse(q.now), 1, 0))
                /\ handlers' = [handlers EXCEPT ![h] = Idle]
           ELSE /\ handlers' = [handlers EXCEPT ![h] =
                                   [q EXCEPT !.pc = "upsert", !.submissionCount = submissionCount]]
                /\ UNCHANGED log
    /\ UNCHANGED <<db, clock, env>>

\* what the store raises for the first statement when nothing else fails
FirstUpsertError == IF env.ipHashRequired THEN IpHashConstraintError ELSE NoError

\* catch (error): rethrown unless it is the ip_hash constraint error, and then
\* on to the statement with ip_hash
CatchUpsertError(h, error) ==
    LET q == handlers[h]
    IN  IF ~isIpHashConstraintError(error)
        THEN /\ log' = Append(log, HandlerEntry(q, InternalServerErrorResponse, 1, 1))
             /\ handlers' = [handlers EXCEPT ![h] = Idle]
        ELSE /\ handlers' = [handlers EXCEPT ![h] = [q EXCEPT !.pc = "fallback"]]
             /\ UNCHANGED log

\* the first upsert runs: on a table that requires ip_hash the statement fails
\* with "NOT NULL constraint failed: waitlist_entries.ip_hash" and writes
\* nothing, and the catch branch goes on to the statement with ip_hash
TryUpsert(h) ==
    /\ handlers[h].pc = "upsert"
    /\ LET q == handlers[h]
       IN  IF FirstUpsertError # NoError
           THEN /\ CatchUpsertError(h, FirstUpsertError)
                /\ UNCHANGED db
           ELSE /\ db' = FirstUpsert(db, upsertValues(q.payload, q.ipAddress, q.now))
                /\ log' = Append(log, HandlerEntry(q, CreatedResponse, 1, 1))
                /\ handlers' = [handlers EXCEPT ![h] = Idle]
    /\ UNCHANGED <<clock, env>>

\* the upsert with ip_hash runs
RetryUpsertWithIpHash(h) ==
    /\ handlers[h].pc = "fallback"
    /\ LET q == handlers[h]
       IN  /\ db' = FallbackUpsert(db, upsertValues(q.payload, q.ipAddress, q.now))
           /\ log' = Append(log, HandlerEntry(q, CreatedResponse, 1, 2))
           /\ handlers' = [handlers EXCEPT ![h] = Idle]
    /\ UNCHANGED <<clock, env>>

\* the count query fails: the await is not guarded, the error leaves the handler
CountQueryFails(h, error) ==
    /\ handlers[h].pc = "count"
    /\ log' = Append(log, HandlerEntry(handlers[h], InternalServerErrorResponse, 1, 0))
    /\ handlers' = [handlers EXCEPT ![h] = Idle]
    /\ UNCHANGED <<db, clock, env>>

\* the first upsert fails with an error of the store: the statement writes
\* nothing and the catch branch runs
TryUpsertFails(h, error) ==
    /\ handlers[h].pc = "upsert"
    /\ CatchUpsertError(h, error)
    /\ UNCHANGED <<db, clock, env>>

\* the upsert with ip_hash fails: it writes nothing, and nothing catches
RetryUpsertFails(h, error) ==
    /\ handlers[h].pc = "fallback"
    /\ log' = Append(log, HandlerEntry(handlers[h], InternalServerErrorResponse, 1, 2))
    /\ handlers' = [handlers EXCEPT ![h] = Idle]
    /\ UNCHANGED <<db, clock, env>>

\* a response that took no handler slot beyond its own step
DirectEntry(response) == LogEntry(Undefined, Undefined, FALSE, Null, 0, 0, response, 0, 0)

\* app.get('/api/health')
GetHealth ==
    /\ Len(log) + Cardinality(InFlight) < MaxRequests
    /\ log' = Append(log, DirectEntry(HealthResponse))
    /\ UNCHANGED <<db, handlers, clock, env>>

\* app.options('/api/waitlist')
OptionsWaitlist ==
    /\ Len(log) + Cardinality(InFlight) < MaxRequests
    /\ log' = Append(log, DirectEntry(OptionsResponse))
    /\ UNCHANGED <<db, handlers, clock, env>>

\* fetch, for a request that is none of the three routes: under /api/ the app
\* answers 404; every other path goes to the asset server, which answers with
\* a status of its own
FetchOther(request, assetStatus) ==
    /\ Len(log) + Cardinality(InFlight) < MaxRequests
    /\ log' = Append(log, DirectEntry(IF StartsWith(request.pathname, "/api/")
                                      THEN NotFoundResponse
                                      ELSE AssetResponse(assetStatus)))
    /\ UNCHANGED <<db, handlers, clock, env>>

\* app.post('/api/waitlist') from the request itself: parseRequestBody, whose
\* error leaves the handler, then the rest of the handler
PostRequest(h, request, headers, date) ==
    LET parsed == ParsedOf[request]
    IN  IF parsed.threw
        THEN /\ handlers[h].pc = "idle"
             /\ h = SetMin(Slots \ InFlight)
             /\ Len(log) + Cardinality(InFlight) < MaxRequests
             /\ log' = Append(log, DirectEntry(InternalServerErrorResponse))
             /\ UNCHANGED <<db, handlers, clock, env>>
        ELSE PostWaitlist(h, parsed.value, headers, date)

\* a request arrives: one of payloads, under one of headerSets, received at one
\* of instants
ArriveFrom(payloads, headerSets, instants) ==
    /\ Len(log) < MaxRequests
    /\ \E h \in {x \in Slots : handlers[x].pc = "idle"}, date \in {t \in instants : t >= clock},
          rawPayload \in payloads, headers \in headerSets :
          PostWaitlist(h, rawPayload, headers, date)

\* a request arrives, one of those in payloads
Arrive(payloads) == ArriveFrom(payloads, HeaderSets, Instants)

\* the requests sent while handlers run concurrently
ConcurrentPayloads ==
    {[BlankPayload EXCEPT !.email = Str_a],
     [BlankPayload EXCEPT !.email = Str_a, !.qualifier = <<"d", "e", "v">>],
     [BlankPayload EXCEPT !.email = Str_A],
     [BlankPayload EXCEPT !.email = Str_c],
     [BlankPayload EXCEPT !.email = Str_a, !.website = <<"w">>],
     BlankPayload}

Next ==
    \/ Arrive(ConcurrentPayloads)
    \/ \E h \in Slots : RateLimitCheck(h)
    \/ \E h \in Slots : TryUpsert(h)
    \/ \E h \in Slots : RetryUpsertWithIpHash(h)

Spec == Init /\ [][Next]_vars

\* requests handled one at a time: a request arrives only when none is in flight
NextSeq ==
    \/ InFlight = {} /\ Arrive(RawPayloads)
    \/ \E h \in Slots : RateLimitCheck(h)
    \/ \E h \in Slots : TryUpsert(h)
    \/ \E h \in Slots : RetryUpsertWithIpHash(h)

SpecSeq == Init /\ [][NextSeq]_vars

\* requests of one IP, handled one at a time, received around midnight
NextDayEnd ==
    \/ InFlight = {} /\ ArriveFrom(TwoSubmissions, OneHeaderSet, DayEndInstants)
    \/ \E h \in Slots : RateLimitCheck(h)
    \/ \E h \in Slots : TryUpsert(h)
    \/ \E h \in Slots : RetryUpsertWithIpHash(h)

SpecDayEnd == Init /\ [][NextDayEnd]_vars

\* requests of one IP at one instant, their handlers interleaved
NextRace ==
    \/ ArriveFrom(ThreeSubmissions, OneHeaderSet, {DateUTC(0, 0, 0, 0, 0)})
    \/ \E h \in Slots : RateLimitCheck(h)
    \/ \E h \in Slots : TryUpsert(h)
    \/ \E h \in Slots : RetryUpsertWithIpHash(h)

SpecRace == Init /\ [][NextRace]_vars

\* requests under every combination of the IP headers, one at a time
NextIp ==
    \/ InFlight = {} /\ ArriveFrom(TwoSubmissions, IpHeaderSets, {DateUTC(0, 0, 0, 0, 0)})
    \/ \E h \in Slots : RateLimitCheck(h)
    \/ \E h \in Slots : TryUpsert(h)
    \/ \E h \in Slots : RetryUpsertWithIpHash(h)

SpecIp == Init /\ [][NextIp]_vars

\* the worker under every setting of the ceiling
InitConfigured ==
    /\ db = {}
    /\ handlers = [h \in Slots |-> Idle]
    /\ clock = 0
    /\ log = <<>>
    /\ env \in [WAITLIST_RATE_LIMIT_PER_DAY : ConfiguredRateLimits, ipHashRequired : BOOLEAN]

NextConfigured ==
    \/ InFlight = {} /\ ArriveFrom(TwoSubmissions, OneHeaderSet, {DateUTC(0, 0, 0, 0, 0)})
    \/ \E h \in Slots : RateLimitCheck(h)
    \/ \E h \in Slots : TryUpsert(h)
    \/ \E h \in Slots : RetryUpsertWithIpHash(h)

SpecConfigured == InitConfigured /\ [][NextConfigured]_vars

\* requests with addresses at the bounds of validation, one at a time
NextEmail ==
    \/ /\ InFlight = {}
       /\ ArriveFrom(GoodEmailPayloads \cup BadEmailPayloads, OneHeaderSet,
                     {DateUTC(0, 0, 0, 0, 0)})
    \/ \E h \in Slots : RateLimitCheck(h)
    \/ \E h \in Slots : TryUpsert(h)
    \/ \E h \in Slots : RetryUpsertWithIpHash(h)

SpecEmail == Init /\ [][NextEmail]_vars

\* every route of the worker, one request at a time
NextRoutes ==
    \/ /\ InFlight = {}
       /\ Len(log) < MaxRequests
       /\ \E h \in Slots, request \in RouteRequests, headers \in OneHeaderSet :
             PostRequest(h, request, headers, DateUTC(0, 0, 0, 0, 0))
    \/ InFlight = {} /\ GetHealth
    \/ InFlight = {} /\ OptionsWaitlist
    \/ /\ InFlight = {}
       /\ \E request \in OtherRequests, assetStatus \in {200, 404} :
             FetchOther(request, assetStatus)
    \/ \E h \in Slots : RateLimitCheck(h)
    \/ \E h \in Slots : TryUpsert(h)
    \/ \E h \in Slots : RetryUpsertWithIpHash(h)

SpecRoutes == Init /\ [][NextRoutes]_vars

\* the handler computes the additionalFields section of a submission's metadata
ComputeAdditionalFields(payloadAdditionalFields) ==
    /\ Len(log) < MaxRequests
    /\ log' = Append(log, [input |-> payloadAdditionalFields,
                           additionalFields |-> additionalFields(payloadAdditionalFields)])
    /\ UNCHANGED <<db, handlers, clock, env>>

NextAdditionalFields ==
    \E payloadAdditionalFields \in AdditionalFieldsInputs :
        ComputeAdditionalFields(payloadAdditionalFields)

SpecAdditionalFields == Init /\ [][NextAdditionalFields]_vars

\* the whole app, one request at a time, over a store whose statements may fail
NextFault ==
    \/ /\ InFlight = {}
       /\ Len(log) < MaxRequests
       /\ \E h \in Slots, request \in Requests, headers \in OneHeaderSet,
             date \in {t \in Instants : t >= clock} : PostRequest(h, request, headers, date)
    \/ InFlight = {} /\ GetHealth
    \/ InFlight = {} /\ OptionsWaitlist
    \/ \E h \in Slots : RateLimitCheck(h)
    \/ \E h \in Slots, error \in StoreFaults : CountQueryFails(h, error)
    \/ \E h \in Slots : TryUpsert(h)
    \/ \E h \in Slots, error \in StoreFaults : TryUpsertFails(h, error)
    \/ \E h \in Slots : RetryUpsertWithIpHash(h)
    \/ \E h \in Slots, error \in StoreFaults \cup {IpHashConstraintError} :
          RetryUpsertFails(h, error)

SpecFault == Init /\ [][NextFault]_vars

-----------------------------------------------------------------------------
(* What the log says about the store.  Every statement that commits is       *)
(* logged in the step that commits it, so the log orders the writes.         *)

Key(e) == ToLowerCase(e.email)

\* a request with a valid payload and the honeypot not filled
Genuine(e) == e.email # Undefined /\ ~e.honeypot

Accepted(e) == e.response.status = 201

Rejected(e) == e.response.status = 429

\* the accepted requests for an address among the first k - 1 responses
AcceptedBefore(k, key) ==
    {m \in 1..(k - 1) : Accepted(log[m]) /\ Key(log[m]) = key}

\* the addresses whose row, after the first k - 1 responses, is attributed to
\* ip and was created on day
KeysOfIpInDayBefore(k, ip, day) ==
    {key \in {Key(log[m]) : m \in {x \in 1..(k - 1) : Accepted(log[x])}} :
        LET acc == AcceptedBefore(k, key)
        IN  /\ log[SetMax(acc)].ip = ip
            /\ UtcDate(log[SetMin(acc)].now) = day}

\* log[i..j] is a run of genuine requests from one IP within one UTC day, each
\* naming an address no earlier request named a row for, begun when the store
\* held no row of that IP created that day
PureRun(i, j) ==
    /\ i \in 1..Len(log) /\ j \in i..Len(log)
    /\ Genuine(log[i])
    /\ KeysOfIpInDayBefore(i, log[i].ip, UtcDate(log[i].now)) = {}
    /\ \A k \in i..j :
          /\ Genuine(log[k])
          /\ log[k].ip = log[i].ip
          /\ UtcDate(log[k].now) = UtcDate(log[i].now)
          /\ AcceptedBefore(k, Key(log[k])) = {}
          /\ \A m \in i..(k - 1) : Key(log[m]) # Key(log[k])

-----------------------------------------------------------------------------
\* C1: handled one at a time, a run of genuine requests from one IP within one
\* UTC day, with pairwise distinct new addresses, begun with no row of that IP
\* created that day, gets 201 for its first rateLimitPerDay requests and 429
\* "rate_limited" for every later one, and a rejected request issues no write
\* and leaves no row
C1_FirstNThenRateLimited ==
    \A i \in 1..Len(log), j \in 1..Len(log) :
        PureRun(i, j) =>
            \A k \in i..j :
                IF k - i < rateLimitPerDay
                THEN log[k].response.status = 201
                ELSE /\ log[k].response.status = 429
                     /\ log[k].response.error = "rate_limited"
                     /\ log[k].writes = 0
                     /\ (AcceptedBefore(Len(log) + 1, Key(log[k])) = {}
                            => ~\E r \in db : r.email = Key(log[k]))

\* a run of three with limit 2: 201, 201, 429
C1_Witness ==
    /\ rateLimitPerDay = 2
    /\ Len(log) = 3
    /\ PureRun(1, 3)
    /\ log[1].response.status = 201
    /\ log[2].response.status = 201
    /\ log[3].response.status = 429

\* C2: (as claimed) the ceiling counts submissions: a genuine request is
\* rejected with 429 once rateLimitPerDay earlier genuine requests from its IP
\* were accepted the same UTC day, whatever addresses they named
C2_CeilingCountsSubmissions ==
    \A k \in 1..Len(log) :
        (/\ Genuine(log[k])
         /\ Cardinality({m \in 1..(k - 1) :
                            /\ Genuine(log[m]) /\ Accepted(log[m])
                            /\ log[m].ip = log[k].ip
                            /\ UtcDate(log[m].now) = UtcDate(log[k].now)}) >= rateLimitPerDay)
            => Rejected(log[k])

\* C3: handled one at a time, after two or more accepted submissions of one
\* address the store holds exactly one row for it, whose mutable columns are
\* those of the last accepted submission (an absent qualifier stored as null)
\* and whose created_at is that of the first
C3_SecondSubmissionOverwrites ==
    \A key \in {Key(log[m]) : m \in {x \in 1..Len(log) : Accepted(log[x])}} :
        LET acc == AcceptedBefore(Len(log) + 1, key)
            first == log[SetMin(acc)]
            last == log[SetMax(acc)]
            rows == {r \in db : r.email = key}
        IN  Cardinality(acc) >= 2 =>
                /\ Cardinality(rows) = 1
                /\ \A r \in rows :
                      /\ r.qualifier = (IF last.qualifier = Undefined THEN Null
                                        ELSE last.qualifier)
                      /\ r.ip_address = last.ip
                      /\ r.ip_hash = (IF env.ipHashRequired THEN sha256Hex(last.ip) ELSE Null)
                      /\ r.updated_at = ToISOString(last.now)
                      /\ r.created_at = ToISOString(first.now)

\* an address accepted twice, the second time from another IP, later, and
\* without the qualifier the first carried
C3_Witness ==
    \E a \in 1..Len(log), b \in 1..Len(log) :
        /\ a < b
        /\ Accepted(log[a]) /\ Accepted(log[b])
        /\ Key(log[a]) = Key(log[b])
        /\ log[a].qualifier # Undefined /\ log[b].qualifier = Undefined
        /\ log[a].ip # log[b].ip
        /\ log[a].now < log[b].now

\* C4: in every interleaving the store holds at most one row per address,
\* addresses compared case-folded: rows are keyed by the lowercased address
\* and every accepted submission has its row
C4_OneRowPerEmail ==
    /\ \A r1 \in db, r2 \in db :
          ToLowerCase(r1.email) = ToLowerCase(r2.email) => r1 = r2
    /\ \A k \in 1..Len(log) :
          Accepted(log[k]) => \E r \in db : r.email = Key(log[k])

\* two accepted submissions whose addresses differ only in case, one row
C4_Witness ==
    \E a \in 1..Len(log), b \in 1..Len(log) :
        /\ Accepted(log[a]) /\ Accepted(log[b])
        /\ log[a].email # log[b].email
        /\ Key(log[a]) = Key(log[b])
        /\ Cardinality(db) = 1

\* C5: a row, once stored, stays, and no later statement, of either write
\* path, changes its created_at
C5_Property ==
    \A r \in db : \E r2 \in db' : r2.email = r.email /\ r2.created_at = r.created_at

C5_CreatedAtNeverChanges == [][C5_Property]_vars

\* a row updated, through the statement with ip_hash, after its insert
C5_Witness ==
    /\ env.ipHashRequired
    /\ \E r \in db : r.updated_at # r.created_at

\* C6: (as claimed) in every interleaving a row's updated_at is never before
\* its created_at, and no statement moves it back
C6_Property ==
    \A r2 \in db' :
        /\ TextLeq(r2.created_at, r2.updated_at)
        /\ \A r \in db : r.email = r2.email => TextLeq(r.updated_at, r2.updated_at)

C6_UpdatedAtAdvances == [][C6_Property]_vars

\* the response a step sends, if it sends one
Responds == Len(log') = Len(log) + 1

Sent == log'[Len(log')]

\* C7: (as claimed) every request whose honeypot field is non-empty after
\* trimming gets 200 with ok: true and leaves the store as it was
C7_Property ==
    (Responds /\ Sent.honeypot) =>
        /\ Sent.response.status = 200
        /\ Sent.response.ok
        /\ db' = db

C7_HoneypotAlwaysAccepted == [][C7_Property]_vars

\* C8: (as claimed) a honeypot-filtered request and an accepted one that differ
\* only in the honeypot field get the same status and the same body
C8_HoneypotIndistinguishable ==
    \A a \in 1..Len(log), b \in 1..Len(log) :
        (/\ log[a].honeypot /\ log[a].email # Undefined
         /\ ~log[b].honeypot /\ Accepted(log[b])
         /\ log[a].email = log[b].email
         /\ log[a].qualifier = log[b].qualifier
         /\ log[a].ip = log[b].ip)
            => log[a].response = log[b].response

\* C9: a request with a valid payload and the honeypot filled gets 200 (never
\* 429) without a statement issued against the store, which it leaves as it
\* was, so that no later count is changed by it
C9_Property ==
    (Responds /\ Sent.honeypot /\ Sent.email # Undefined) =>
        /\ Sent.response.status = 200
        /\ Sent.reads = 0
        /\ Sent.writes = 0
        /\ db' = db

C9_BotFilterBeforeLimiter == [][C9_Property]_vars

\* a honeypot request answered 200 while its IP is at the limit for the day
C9_Witness ==
    /\ Len(log) > 0
    /\ LET e == log[Len(log)]
       IN  /\ e.honeypot
           /\ e.response.status = 200
           /\ CountQuery(db, e.ip, startOfUtcDayIso(e.now), endOfUtcDayIso(e.now))
                 >= rateLimitPerDay

\* the instant an ISO string names
IsoInstant(iso) == DateUTC(iso[1], iso[2], iso[3], iso[4], iso[5])

\* C10: the count a rate-limit check reads is the number of rows of the IP
\* created on the UTC calendar day of the request's receipt, 00:00:00.000 and
\* 23:59:59.999 included; a request whose IP has no row created that day is
\* not rejected, whatever the IP's rows of other days
C10_Property ==
    \A h \in Slots :
        (handlers[h].pc = "count" /\ handlers'[h].pc # "count") =>
            LET q == handlers[h]
                sameDay == {r \in db : /\ r.ip_address = q.ipAddress
                                       /\ UtcDate(IsoInstant(r.created_at)) = UtcDate(q.now)}
                count == IF handlers'[h].pc = "idle" THEN Sent.count
                         ELSE handlers'[h].submissionCount
            IN  /\ count = Cardinality(sameDay)
                /\ sameDay = {} => handlers'[h].pc = "upsert"

C10_UtcDayBuckets == [][C10_Property]_vars

\* an IP at its limit for day 0 by a row created at 23:59:59.999, rejected at
\* that instant and accepted, with a count of zero, at 00:00:00.000 of day 1
C10_Witness ==
    /\ Len(log) = 3
    /\ log[1].ip = log[2].ip /\ log[2].ip = log[3].ip
    /\ Accepted(log[1]) /\ log[1].now = DateUTC(0, 23, 59, 59, 999)
    /\ Rejected(log[2]) /\ log[2].now = DateUTC(0, 23, 59, 59, 999)
    /\ Accepted(log[3]) /\ log[3].now = DateUTC(1, 0, 0, 0, 0) /\ log[3].count = 0
    /\ Cardinality({r \in db : r.ip_address = log[3].ip /\ r.created_at[1] = 0})
          >= rateLimitPerDay

\* the first instant of the UTC day after that of t
NextUtcMidnight(t) == (UtcDate(t) + 1) * MsPerDay

\* C11: every 429 response carries Retry-After = max(1, ceil((next UTC
\* midnight - T) / 1000)) for its receipt instant T: the least whole number of
\* seconds reaching the next midnight, an integer in 1..86400, and 1 for a T
\* within the last second of the day
C11_RetryAfter ==
    \A k \in 1..Len(log) :
        Rejected(log[k]) =>
            LET T == log[k].now
                remaining == NextUtcMidnight(T) - T
                r == log[k].response.retryAfter
            IN  /\ r \in 1..86400
                /\ r * 1000 >= remaining
                /\ (r - 1) * 1000 < remaining
                /\ remaining <= 1000 => r = 1

\* rejections received 1001 ms, 1000 ms and 1 ms before midnight, and at the
\* first instant of a day
C11_Witness ==
    \E a \in 1..Len(log), b \in 1..Len(log) :
        /\ Rejected(log[a]) /\ Rejected(log[b])
        /\ \/ /\ log[a].now = DateUTC(0, 23, 59, 58, 999) /\ log[a].response.retryAfter = 2
              /\ log[b].now = DateUTC(0, 23, 59, 59, 0) /\ log[b].response.retryAfter = 1
           \/ /\ log[a].now = DateUTC(0, 0, 0, 0, 0) /\ log[a].response.retryAfter = 86400
              /\ log[b].now = DateUTC(0, 23, 59, 59, 999) /\ log[b].response.retryAfter = 1

\* C12: (as claimed) every request ends with one of the status codes 200, 201,
\* 204, 400 and 429, whatever the input and whatever the store does
C12_OnlyFiveStatusCodes ==
    \A k \in 1..Len(log) : log[k].response.status \in {200, 201, 204, 400, 429}

\* C13: the handler succeeds under both table shapes.  On a table that does
\* not require ip_hash the first upsert commits and the request ends with 201.
\* On one that does, the first upsert writes nothing and sends nothing, the
\* handler goes on to one more statement, and that statement ends the request
\* with 201 and leaves the store as the first statement would have left it,
\* but for ip_hash of the request's row, which is the SHA-256 of its
\* connecting IP
C13_Property ==
    \A h \in Slots :
        LET q == handlers[h]
        IN  /\ (q.pc = "upsert" /\ handlers'[h].pc # "upsert") =>
                  IF env.ipHashRequired
                  THEN handlers'[h].pc = "fallback" /\ db' = db /\ ~Responds
                  ELSE /\ handlers'[h].pc = "idle"
                       /\ Responds /\ Sent.response.status = 201 /\ Sent.writes = 1
            /\ (q.pc = "fallback" /\ handlers'[h].pc # "fallback") =>
                  LET firstAttempt == FirstUpsert(db, upsertValues(q.payload, q.ipAddress, q.now))
                      key == ToLowerCase(q.payload.email)
                  IN  /\ env.ipHashRequired
                      /\ handlers'[h].pc = "idle"
                      /\ Responds /\ Sent.response.status = 201 /\ Sent.writes = 2
                      /\ db' = {IF r.email = key
                                THEN [r EXCEPT !.ip_hash = sha256Hex(q.ipAddress)]
                                ELSE r : r \in firstAttempt}

C13_FallbackEquivalent == [][C13_Property]_vars

\* on a table that requires ip_hash: a row inserted through the fallback and
\* later updated through it from another IP
C13_Witness ==
    /\ env.ipHashRequired
    /\ \E a \in 1..Len(log), b \in 1..Len(log) :
          /\ a < b
          /\ Accepted(log[a]) /\ Accepted(log[b])
          /\ log[a].writes = 2 /\ log[b].writes = 2
          /\ Key(log[a]) = Key(log[b])
          /\ log[a].ip # log[b].ip
          /\ \E r \in db : r.email = Key(log[b]) /\ r.ip_hash = sha256Hex(log[b].ip)

\* C14: only the ip_hash constraint error is recovered.  A first upsert that
\* fails with any other error, and a fallback upsert that fails with any
\* error, ends the request at once: the handler issues no further statement,
\* the response is the propagated error and not 201, and the store is as it
\* was.  No step but one that answers 201 changes the store, so that a request
\* that fails leaves it as it found it, and no request issues more than two
\* writes
C14_Property ==
    /\ \A h \in Slots, error \in StoreFaults :
          TryUpsertFails(h, error) =>
              /\ Responds
              /\ Sent.response = InternalServerErrorResponse
              /\ Sent.writes = 1
              /\ handlers'[h] = Idle
              /\ db' = db
    /\ \A h \in Slots, error \in StoreFaults \cup {IpHashConstraintError} :
          RetryUpsertFails(h, error) =>
              /\ Responds
              /\ Sent.response = InternalServerErrorResponse
              /\ Sent.writes = 2
              /\ handlers'[h] = Idle
              /\ db' = db
    /\ (~Responds \/ Sent.response.status # 201) => db' = db
    /\ Responds => Sent.writes <= 2

C14_OnlySchemaFaultRecovered == [][C14_Property]_vars

\* after an accepted request: a request whose first upsert failed with another
\* error, and one whose fallback upsert failed, the store still holding the
\* one row
C14_Witness ==
    /\ Len(log) = 3
    /\ Accepted(log[1])
    /\ log[2].response.status = 500 /\ log[2].writes = 1
    /\ log[3].response.status = 500 /\ log[3].writes = 2
    /\ Cardinality(db) = 1
    /\ \A r \in db : r.updated_at = ToISOString(log[1].now) /\ r.email = Key(log[1])

\* C15: the rate-limit check is a read followed by a separate write.  The step
\* in which the count query returns writes nothing; the step that commits an
\* upsert decides nothing: the request it accepts read, at that earlier step,
\* a count below the ceiling, whatever the store holds by now
C15_Property ==
    \A h \in Slots :
        LET q == handlers[h]
        IN  /\ (q.pc = "count" /\ handlers'[h].pc # "count") => db' = db
            /\ (q.pc \in {"upsert", "fallback"} /\ handlers'[h].pc = "idle") =>
                  /\ Responds /\ Sent.response.status = 201
                  /\ Sent.count = q.submissionCount
                  /\ q.submissionCount < rateLimitPerDay
                  /\ \E r \in db' : r.email = ToLowerCase(q.payload.email)

C15_CheckThenWrite == [][C15_Property]_vars

\* the overshoot: a ceiling of 2, one row of the IP for the day, then two
\* requests of that IP with new addresses that both read 1, both got 201, and
\* left 3 rows of the IP for the day
C15_Witness ==
    /\ rateLimitPerDay = 2
    /\ Len(log) = 3
    /\ \A k \in 1..3 : Accepted(log[k]) /\ log[k].ip = log[1].ip
                          /\ UtcDate(log[k].now) = UtcDate(log[1].now)
    /\ log[1].count = 0
    /\ log[2].count = rateLimitPerDay - 1 /\ log[3].count = rateLimitPerDay - 1
    /\ Key(log[2]) # Key(log[3])
    /\ CountQuery(db, log[1].ip, startOfUtcDayIso(log[1].now), endOfUtcDayIso(log[1].now))
          = rateLimitPerDay + 1

\* C16: in every interleaving, once two or more submissions of one address
\* were accepted the store holds exactly one row for it, and every mutable
\* column of that row is as the request whose upsert committed last bound
\* it: no column is left from another request and the last write is not lost
C16_LastWriterWins ==
    \A key \in {Key(log[m]) : m \in {x \in 1..Len(log) : Accepted(log[x])}} :
        LET committed == {m \in 1..Len(log) : Accepted(log[m]) /\ Key(log[m]) = key}
            last == log[SetMax(committed)]
        IN  Cardinality(committed) >= 2 =>
                /\ Cardinality({r \in db : r.email = key}) = 1
                /\ \A r \in db :
                      r.email = key =>
                          /\ r.qualifier = Coalesce(last.qualifier, Null)
                          /\ r.ip_address = last.ip
                          /\ r.updated_at = ToISOString(last.now)
                          /\ env.ipHashRequired => r.ip_hash = sha256Hex(last.ip)

\* two submissions of one address in flight together, differing in qualifier
\* and IP, the one received later committed first
C16_Witness ==
    \E a \in 1..Len(log), b \in 1..Len(log) :
        /\ a < b
        /\ Accepted(log[a]) /\ Accepted(log[b])
        /\ Key(log[a]) = Key(log[b])
        /\ log[a].now > log[b].now
        /\ log[a].qualifier # log[b].qualifier
        /\ log[a].ip # log[b].ip

Unknown == <<"u", "n", "k", "n", "o", "w", "n">>

\* the rate-limit key each of IpHeaderSets is to resolve to
ExpectedKey(headers) ==
    IF headers.cfConnectingIp = <<"1">> THEN <<"1">>
    ELSE IF headers.xForwardedFor # Null THEN <<"2">>
    ELSE Unknown

\* the rows of one rate-limit key created on the UTC day of an instant
Bucket(key, now) ==
    {r \in db : r.ip_address = key /\ UtcDate(IsoInstant(r.created_at)) = UtcDate(now)}

\* C17: the rate-limit key of a request is its cf-connecting-ip header when
\* present and non-empty, else the trimmed first hop of x-forwarded-for when
\* that header is present and non-empty, else "unknown"; and the limiter
\* answers by the rows of that key alone: 429 exactly when the key has
\* rateLimitPerDay rows or more for the day, so that requests without either
\* header share one bucket and requests with a connecting IP are not touched
\* by it
C17_Property ==
    /\ \A h \in Slots, rawPayload \in TwoSubmissions, headers \in IpHeaderSets :
          PostWaitlist(h, rawPayload, headers, clock') =>
              /\ handlers'[h].pc = "count"
              /\ handlers'[h].ipAddress = ExpectedKey(headers)
    /\ \A h \in Slots :
          (handlers[h].pc = "count" /\ handlers'[h].pc # "count") =>
              LET q == handlers[h]
              IN  IF Cardinality(Bucket(q.ipAddress, q.now)) >= rateLimitPerDay
                  THEN Responds /\ Rejected(Sent) /\ Sent.ip = q.ipAddress
                  ELSE handlers'[h].pc = "upsert"

C17_RateLimitKey == [][C17_Property]_vars

\* a ceiling of 1: a request without IP headers accepted, a second one
\* rejected, and then a request with cf-connecting-ip accepted on a count of 0
C17_Witness ==
    /\ rateLimitPerDay = 1
    /\ Len(log) = 3
    /\ log[1].ip = Unknown /\ Accepted(log[1])
    /\ log[2].ip = Unknown /\ Rejected(log[2]) /\ Key(log[2]) # Key(log[1])
    /\ log[3].ip = <<"1">> /\ Accepted(log[3]) /\ log[3].count = 0

\* a setting that is a positive integer: digits only, of value 1 or more
IsPositiveIntegerText(w) ==
    /\ IsString(w)
    /\ Len(w) > 0
    /\ \A i \in 1..Len(w) : w[i] \in Digits
    /\ DigitsValue(w) >= 1

\* C18: (as claimed) the ceiling in effect is a positive integer: the setting
\* WAITLIST_RATE_LIMIT_PER_DAY when that is a positive integer, and 10 when it
\* is unset, empty, not a number, zero or negative
C18_CeilingFromConfig ==
    LET w == env.WAITLIST_RATE_LIMIT_PER_DAY
    IN  /\ rateLimitPerDay >= 1
        /\ IF IsPositiveIntegerText(w) THEN rateLimitPerDay = DigitsValue(w)
           ELSE rateLimitPerDay = 10

\* the body of every validation failure
InvalidPayloadEnvelope ==
    [status |-> 400, ok |-> FALSE, error |-> "invalid_payload",
     message |-> "Please submit a valid email address.", retryAfter |-> 0]

\* C19: a POST whose address is absent, not a string, or white space only is
\* answered 400 invalid_payload, as is one of valid form of 321 characters;
\* one of valid form of exactly 320 characters after trimming passes
\* validation, trimmed; every 400 carries the one fixed envelope and leaves
\* the store as it was
C19_Property ==
    /\ \A h \in Slots, rawPayload \in BadEmailPayloads, headers \in OneHeaderSet :
          PostWaitlist(h, rawPayload, headers, clock') =>
              /\ Responds
              /\ Sent.response = InvalidPayloadEnvelope
              /\ UNCHANGED <<db, handlers>>
    /\ \A h \in Slots, rawPayload \in GoodEmailPayloads, headers \in OneHeaderSet :
          PostWaitlist(h, rawPayload, headers, clock') =>
              /\ ~Responds
              /\ handlers'[h].pc = "count"
              /\ handlers'[h].payload.email \in {Str_a, Email320}
    /\ (Responds /\ Sent.response.status = 400) =>
          Sent.response = InvalidPayloadEnvelope /\ db' = db

C19_EmailBoundary == [][C19_Property]_vars

\* an address of 320 characters accepted and stored, and a request answered 400
C19_Witness ==
    /\ \E k \in 1..Len(log) : Accepted(log[k]) /\ Len(log[k].email) = 320
    /\ \E r \in db : Len(r.email) = 320
    /\ \E k \in 1..Len(log) : log[k].response.status = 400

\* C20: (as claimed) the body parser never throws: every request whose body
\* does not parse under its content type is answered 400 invalid_payload
C20_Property ==
    \A h \in Slots, request \in UnparsableRequests, headers \in OneHeaderSet :
        PostRequest(h, request, headers, clock') =>
            Responds /\ Sent.response = InvalidPayloadResponse

C20_ParserNeverThrows == [][C20_Property]_vars

\* C21: the store changes only in a step of POST /api/waitlist that commits an
\* upsert and answers 201: every request that ends in 200 (health, honeypot),
\* 204, 400 or 429, and every request handed to the asset server, leaves
\* every row as it was, and no step removes a row, so that the set of stored
\* addresses only grows
C21_Property ==
    /\ (Responds /\ Sent.response.status \in {200, 204, 400, 429}) => db' = db
    /\ (Responds /\ Sent.response.message = "asset") => db' = db
    /\ db' # db => /\ Responds
                   /\ Sent.response.status = 201
                   /\ Sent.writes >= 1
                   /\ \E h \in Slots : handlers[h].pc \in {"upsert", "fallback"}
    /\ {r.email : r \in db} \subseteq {r.email : r \in db'}

C21_StoreChangesOnlyByUpsert == [][C21_Property]_vars

\* after an accepted submission: a rejected one, then a request served by the
\* asset server, the one row as the first left it
C21_Witness ==
    /\ Len(log) = 3
    /\ Accepted(log[1])
    /\ Rejected(log[2])
    /\ log[3].response.message = "asset"
    /\ db # {}
    /\ \A r \in db : r.email = Key(log[1]) /\ r.updated_at = ToISOString(log[1].now)

\* C22: (as claimed) the additionalFields section has at most 24 entries, each
\* key non-empty, trimmed and of at most 64 characters, each value a non-empty
\* string of at most 1200 characters, never the key useCase, whatever the
\* input; and {teamSize: "3-10"} is stored as teamSize mapped to "3-10"
C22_SanitizedFields ==
    \A k \in 1..Len(log) :
        LET output == log[k].additionalFields
        IN  /\ Len(output) <= 24
            /\ \A j \in 1..Len(output) :
                  LET key == output[j][1]
                      value == output[j][2]
                  IN  /\ Len(key) \in 1..64
                      /\ key[1] # " " /\ key[Len(key)] # " "
                      /\ IsString(value)
                      /\ Len(value) \in 1..1200
                      /\ key # UseCaseKey
            /\ log[k].input = Fields(TeamSizeFields) => output = TeamSizeFields

\* the rows attributed to ip whose created_at lies in UTC day number day
RowsOfIpCreatedOn(rows, ip, day) ==
    {r \in rows : r.ip_address = ip /\ UtcDate(IsoInstant(r.created_at)) = day}

\* C23: with requests handled one at a time, in every state and for every IP,
\* the rows attributed to the IP and created in the current UTC day (the day
\* of the latest receipt) are at most the ceiling
C23_SequentialCeiling ==
    \A headers \in HeaderSets :
        Cardinality(RowsOfIpCreatedOn(db, ConnectingIpOf[headers], UtcDate(clock)))
            <= rateLimitPerDay

\* the ceiling reached: an IP holds as many rows of the current day as the
\* ceiling allows, and its next request of that day has been answered 429
C23_Witness ==
    /\ Len(log) = 3
    /\ InFlight = {}
    /\ Rejected(log[3])
    /\ UtcDate(log[3].now) = UtcDate(clock)
    /\ log[3].count = rateLimitPerDay
    /\ Cardinality(RowsOfIpCreatedOn(db, log[3].ip, UtcDate(clock))) = rateLimitPerDay

\* the rows attributed to ip, created in UTC day number day, whose latest write
\* came from a request received that day (one that day's check let pass)
RowsAdmittedOn(rows, ip, day) ==
    {r \in RowsOfIpCreatedOn(rows, ip, day) : UtcDate(IsoInstant(r.updated_at)) = day}

\* C24: with up to MaxInflight handlers in flight at once, in every state, for
\* every IP and UTC day, the rows attributed to the IP, created that day and
\* admitted by that day's checks are at most the ceiling + MaxInflight - 1
C24_OvershootBounded ==
    \A r0 \in db :
        Cardinality(RowsAdmittedOn(db, r0.ip_address, UtcDate(IsoInstant(r0.created_at))))
            <= rateLimitPerDay + MaxInflight - 1

\* the bound reached under a ceiling of 1: two requests of one IP were in
\* flight together, both read a count of 0 and both were accepted, the day
\* holds more rows of the IP than the ceiling, as many as the bound allows,
\* and the IP's next request read that count and was answered 429
C24_Witness ==
    /\ rateLimitPerDay = 1
    /\ Len(log) = 3
    /\ Accepted(log[1]) /\ Accepted(log[2]) /\ Rejected(log[3])
    /\ log[1].count = 0 /\ log[2].count = 0
    /\ log[1].ip = log[3].ip /\ log[2].ip = log[3].ip
    /\ Cardinality(RowsAdmittedOn(db, log[3].ip, UtcDate(log[3].now)))
          = rateLimitPerDay + 1
    /\ log[3].count = rateLimitPerDay + 1

\* the connecting IPs of the requests sent
SentIps == {ConnectingIpOf[headers] : headers \in HeaderSets}

\* the rate-limit count of ip for the UTC day of instant now, as the count
\* query computes it over rows
CountToday(rows, ip, now) ==
    CountQuery(rows, ip, startOfUtcDayIso(now), endOfUtcDayIso(now))

\* handler h answers 201 in this step
Commits(h) ==
    /\ handlers[h].pc \in {"upsert", "fallback"}
    /\ handlers'[h].pc = "idle"
    /\ Responds /\ Sent.response.status = 201

\* the row holding the address handler h submits, if any
RowOfSubmission(h) ==
    IF handlers[h].pc = "idle" THEN {}
    ELSE {r \in db : r.email = ToLowerCase(handlers[h].payload.email)}

CreatedToday(r, now) == UtcDate(IsoInstant(r.created_at)) = UtcDate(now)

\* the counts for the day of now move by one from IP from to IP to
MovesOne(now, from, to) ==
    /\ CountToday(db', from, now) = CountToday(db, from, now) - 1
    /\ CountToday(db', to, now) = CountToday(db, to, now) + 1
    /\ \A ip \in SentIps \ {from, to} : CountToday(db', ip, now) = CountToday(db, ip, now)

\* the counts for the day of now stay as they are
CountsUnchanged(now) ==
    \A ip \in SentIps : CountToday(db', ip, now) = CountToday(db, ip, now)

\* a step that commits no submission leaves every count of every day as it
\* is; a submission that inserts a row raises the submitting IP's count for
\* today by one and no other
C25_InsertOrNothing ==
    /\ (\A h \in Slots : ~Commits(h)) => \A now \in Instants : CountsUnchanged(now)
    /\ \A h \in Slots :
          (Commits(h) /\ RowOfSubmission(h) = {}) =>
              LET q == handlers[h]
              IN  /\ CountToday(db', q.ipAddress, q.now)
                        = CountToday(db, q.ipAddress, q.now) + 1
                  /\ \A ip \in SentIps \ {q.ipAddress} :
                        CountToday(db', ip, q.now) = CountToday(db, ip, q.now)

\* a successful submission on an address whose row was created on an earlier
\* UTC day leaves the submitting IP's count for today unchanged
C25_EarlierDayRow ==
    \A h \in Slots : \A r \in RowOfSubmission(h) :
        (Commits(h) /\ ~CreatedToday(r, handlers[h].now)) =>
            CountToday(db', handlers[h].ipAddress, handlers[h].now)
                = CountToday(db, handlers[h].ipAddress, handlers[h].now)

\* C25 (as claimed): the count of an IP changes only when a row is inserted or
\* re-attributed; a successful submission on an address whose row was created
\* on an earlier UTC day leaves the submitting IP's count for today unchanged;
\* and a successful submission from IP Y on an address last written today by
\* another IP X lowers X's count for today by one and raises Y's by one
C25_Property ==
    /\ C25_InsertOrNothing
    /\ C25_EarlierDayRow
    /\ \A h \in Slots : \A r \in RowOfSubmission(h) :
          LET q == handlers[h]
          IN  (/\ Commits(h)
               /\ UtcDate(IsoInstant(r.updated_at)) = UtcDate(q.now)
               /\ r.ip_address # q.ipAddress) =>
                  /\ CountToday(db', r.ip_address, q.now)
                        = CountToday(db, r.ip_address, q.now) - 1
                  /\ CountToday(db', q.ipAddress, q.now)
                        = CountToday(db, q.ipAddress, q.now) + 1

C25_AmendedProperty ==
    /\ C25_InsertOrNothing
    /\ C25_EarlierDayRow
    /\ \A h \in Slots : \A r \in RowOfSubmission(h) :
          LET q == handlers[h]
          IN  Commits(h) =>
                  IF CreatedToday(r, q.now) /\ r.ip_address # q.ipAddress
                  THEN MovesOne(q.now, r.ip_address, q.ipAddress)
                  ELSE CountsUnchanged(q.now)

=============================================================================
